---------------------------- MODULE Spec2Model ----------------------------
(***************************************************************************)
(* Model of the Procedural-Terrain OpenGL demo: the per-frame render       *)
(* pipeline of main() (scene pass, downsample pass, ping-pong blur pass,   *)
(* composite pass) and the sun controller AnimateSun().                    *)
(*                                                                         *)
(* Numbers.  The program computes in 32-bit floats; the model computes in  *)
(* fixed point with FX units per 1.0 (seconds, radians, colour and         *)
(* exposure in 1/FX, angles in 1/100 degree).  Every formula is the one of *)
(* the source, evaluated with integer arithmetic; float rounding in the    *)
(* last digits is not modelled.                                            *)
(***************************************************************************)
EXTENDS Integers, Sequences, FiniteSets, TLC

\* ------------------------------------------------------------------------
\* Bounds of the model
\* ------------------------------------------------------------------------
MaxAmount  == 3    \* blur iteration counts 0..MaxAmount are explored
MaxFrames  == 3    \* frames of the main loop explored under Spec
MaxUpdates == 12   \* AnimateSun updates explored under SpecSun

\* ------------------------------------------------------------------------
\* Fixed-point arithmetic
\* ------------------------------------------------------------------------
FX      == 10 ^ 4         \* fixed-point unit: 1.0
FX_PI   == 31416          \* glm::pi<float>() in FX units
FX_HALF_PI == FX_PI \div 2
FX_TWO_PI  == 2 * FX_PI

Abs(n) == IF n < 0 THEN -n ELSE n

\* division rounding toward zero, as a float product of small magnitude
\* rounds symmetrically around zero
Quot(a, b) == IF a >= 0 THEN a \div b ELSE -((-a) \div b)

\* a * b for fixed-point operands
Mul(a, b) == Quot(a * b, FX)

\* cos on [0, pi/2] by its Taylor series in Horner form
CosQ(r) ==
    LET x2 == (r * r) \div FX
        t5 == FX - x2 \div 90
        t4 == FX - (x2 * t5) \div (56 * FX)
        t3 == FX - (x2 * t4) \div (30 * FX)
        t2 == FX - (x2 * t3) \div (12 * FX)
    IN  FX - (x2 * t2) \div (2 * FX)

\* cos(x), x in FX radians, any sign
Cos(x) ==
    LET m == x % FX_TWO_PI
        r == IF m > FX_PI THEN FX_TWO_PI - m ELSE m
    IN  IF r > FX_HALF_PI THEN -CosQ(FX_PI - r) ELSE CosQ(r)

\* sin(x) = cos(x - pi/2)
Sin(x) == Cos(x - FX_HALF_PI)

RECURSIVE SqrtSearch(_, _, _)
SqrtSearch(n, lo, hi) ==
    IF lo >= hi THEN lo
    ELSE LET Narrow(mid) == IF mid * mid <= n THEN SqrtSearch(n, mid, hi)
                            ELSE SqrtSearch(n, lo, mid - 1)
         IN  CHOOSE r \in {Narrow(mid) : mid \in {(lo + hi + 1) \div 2}} : TRUE

\* floor of the square root of n, 0 <= n < 2^31
ISqrt(n) == SqrtSearch(n, 0, 46340)

\* cos of an angle given in 1/100 degree (0..18000)
CosDeg(a) == Cos((a * FX_PI) \div 18000)

RECURSIVE AcosSearch(_, _, _)
AcosSearch(d, lo, hi) ==
    IF lo >= hi THEN lo
    ELSE LET Narrow(mid) == IF CosDeg(mid) <= d THEN AcosSearch(d, lo, mid)
                            ELSE AcosSearch(d, mid + 1, hi)
         IN  CHOOSE r \in {Narrow(mid) : mid \in {(lo + hi) \div 2}} : TRUE

\* glm::degrees(glm::acos(d)): d in FX units, result in 1/100 degree.
\* The least angle whose cosine is <= d; arguments a rounding step outside
\* [-1, 1] are taken at the end of the range.
AcosDeg(d) ==
    LET Angle(c) == IF c >= FX THEN 0
                    ELSE IF c <= -FX THEN 18000
                    ELSE AcosSearch(c, 0, 18000)
    IN  CHOOSE r \in {Angle(c) : c \in {d}} : TRUE


\* ------------------------------------------------------------------------
\* Vectors, glm helpers
\* ------------------------------------------------------------------------
Vec3(a, b, c) == [x |-> a, y |-> b, z |-> c]

\* glm::mix(x, y, a) = x * (1 - a) + y * a, unclamped
Mix(x, y, a) == Quot(x * (FX - a) + y * a, FX)

MixVec(u, v, a) == Vec3(Mix(u.x, v.x, a), Mix(u.y, v.y, a), Mix(u.z, v.z, a))

Length(v) == ISqrt(v.x * v.x + v.y * v.y + v.z * v.z)

\* glm::normalize
Normalize(v) ==
    LET Scaled(len) == Vec3(Quot(v.x * FX, len), Quot(v.y * FX, len), Quot(v.z * FX, len))
    IN  CHOOSE r \in {Scaled(len) : len \in {Length(v)}} : TRUE

\* glm::dot
Dot(u, v) == Quot(u.x * v.x + u.y * v.y + u.z * v.z, FX)

\* float EaseInOutSine(float x): -(cos(pi * x) - 1) / 2
EaseInOutSine(x) == Quot(-(Cos(Mul(FX_PI, x)) - FX), 2)

\* ------------------------------------------------------------------------
\* Program constants and initial values of the globals
\* ------------------------------------------------------------------------
gaussianBlurIntensity == 100
WHITE        == Vec3(50000, 42500, 27500)    \* (1.0, 0.85, 0.55) * bloomFactor
ORANGE       == Vec3(50000, 25000, 2500)     \* (1.0, 0.5, 0.05) * bloomFactor
maxExposure  == 7500
minExposure  == 500
sunRadius    == 17000
sunDesiredSpeed == 4000
idleTime     == 10000
bIsSunStationary == FALSE
SunAngleInit == 99999                        \* 999.99f, "default init value"
HorizonLow   == 500                          \* 5.0f degrees
HorizonHigh  == 17500                        \* 175.0f degrees
ZenithLow    == 8990                         \* 89.9f degrees
ZenithHigh   == 9010                         \* 90.1f degrees

\* frame times (seconds in FX units) the main loop may measure:
\* 1/60 s, a 0.25 s hitch, a 2 s stall
DeltaTimes == {167, 2500, 20000}

\* blur iteration counts explored: the small ones and the program's own
Amounts == (0 .. MaxAmount) \cup {gaussianBlurIntensity}

\* ------------------------------------------------------------------------
\* State
\* ------------------------------------------------------------------------
VARIABLES
    \* sun controller globals
    lightPos, lightDiffuse, exposure, sunAngle, sunVel, timer,
    bReverseSun, bWaiting, deltaTime,
    glowColor,        \* sunShader uniform "glowColor"
    \* history of the controller
    updates,          \* number of AnimateSun calls completed
    branch,           \* what the last AnimateSun call did
    \* main loop
    pc, frame, amount, horizontal, first_iteration, i,
    \* GL context
    boundFBO, activeTexture, texUnit, program, viewport,
    \* uniforms written per frame
    uLightPos,        \* proceduralTerrain uniform "lightPos"
    uExposure,        \* postProcessShader uniform "exposure"
    \* history of the frame
    passLog,          \* passes entered in the current frame, in order
    drawLog,          \* draws issued in the current frame, in order
    sceneUpdates,     \* value of updates when the scene pass drew
    compUpdates       \* value of updates when the composite pass drew

sunVars  == <<lightPos, lightDiffuse, exposure, sunAngle, sunVel, timer,
              bReverseSun, bWaiting, glowColor, updates, branch>>
loopVars == <<pc, frame, amount, horizontal, first_iteration, i>>
glVars   == <<boundFBO, activeTexture, texUnit, viewport>>
histVars == <<uLightPos, uExposure, passLog, drawLog, sceneUpdates, compUpdates>>
mainVars == <<sunVars, deltaTime, loopVars, glVars, program, histVars>>

VARIABLES
    fbm,              \* one FBM call of GenerateHeightMap: locals and result
    nm,               \* one GenerateNormalMap call: arguments, locals, result
    startup,          \* main() before the render loop: position, handles, diagnostics
    targetDims,       \* storage of each off-screen target: <<width, height>>
    uAspectRatio      \* postProcessShader's "aspectRatio" uniform

auxVars  == <<fbm, nm, startup, targetDims, uAspectRatio>>
vars     == <<mainVars, auxVars>>

\* ------------------------------------------------------------------------
\* The sun controller
\* ------------------------------------------------------------------------
\* sunAngle = degrees(acos(dot(normalize(lightPos), normalize(vec3(1,0,1)))))
AngleOf(pos) == AcosDeg(Dot(Normalize(pos), Normalize(Vec3(FX, 0, FX))))

\* variant: the tolerance band around 90 degrees left out
ApproachingHorizon_NoBand(angle, reverse) ==
    (angle <= 9000 /\ ~reverse) \/ (angle >= 9000 /\ reverse)

\* "If sun is approaching the horizon"
ApproachingHorizon(angle, reverse) ==
    (angle < ZenithLow /\ ~reverse) \/ (angle > ZenithHigh /\ reverse)

\* variants of the forward horizon test: direction test inverted, direction
\* test left out, wrong threshold constant
AtForwardHorizon_WrongWay(angle, reverse) == angle < HorizonLow /\ reverse
AtForwardHorizon_NoDirection(angle, reverse) == angle < HorizonLow
AtForwardHorizon_Early(angle, reverse) == angle < ZenithLow /\ ~reverse

\* "Check if sun is at either horizon"
AtForwardHorizon(angle, reverse) == angle < HorizonLow /\ ~reverse
AtReverseHorizon(angle, reverse) == angle > HorizonHigh /\ reverse

\* lightPos.x = lightPos.z = sunRadius * -cos(sunVel); y = sunRadius * sin(sunVel)
OrbitPos(vel) ==
    LET c == Mul(sunRadius, -Cos(vel))
    IN  Vec3(c, Mul(sunRadius, Sin(vel)), c)

\* variant: the angle is taken from lightPos in the waiting branch too
AngleInput_Recomputed(waiting, stored, pos) == AngleOf(pos)

\* sunAngle as the horizon check reads it: assigned in the moving branch only
AngleInput(waiting, stored, pos) == IF waiting THEN stored ELSE AngleOf(pos)

\* variant: timer = 0.0f left out
TimerAfterWait_NoReset(elapsed, over) == elapsed

\* timer += deltaTime; if (timer >= idleTime) { bWaiting = false; timer = 0.0f; }
TimerAfterWait(elapsed, over) == IF over THEN 0 ELSE elapsed

\* the statements of AnimateSun(Shader& sunShader), deltaTime being dt
AnimateSunBody(dt) ==
    IF bIsSunStationary
    THEN /\ lightPos' = Vec3(FX, 7500, FX)
         /\ branch' = "stationary"
         /\ UNCHANGED <<lightDiffuse, exposure, sunAngle, sunVel, timer,
                        bReverseSun, bWaiting, glowColor, program>>
    ELSE
      \E angle \in {AngleInput(bWaiting, sunAngle, lightPos)},
         e \in {EaseInOutSine(dt)} :
      LET moving   == ~bWaiting
          dir      == IF bReverseSun THEN -FX ELSE FX
          target   == Mul(sunDesiredSpeed, dir)
          base     == Mul(Mul(dt, sunDesiredSpeed), dir)
          horizon  == ApproachingHorizon(angle, bReverseSun)
          vel      == IF horizon
                      THEN sunVel + Mix(base, 0, e * 120)
                      ELSE sunVel + Mix(base, target, e * 3)
          colour   == MixVec(lightDiffuse, IF horizon THEN ORANGE ELSE WHITE, e * 10)
          expo     == Mix(exposure, IF horizon THEN minExposure ELSE maxExposure, e * 10)
          elapsed  == timer + dt
          waitOver == elapsed >= idleTime
          stillWaiting == bWaiting /\ ~waitOver
          atFwd    == AtForwardHorizon(angle, bReverseSun)
          atRev    == ~atFwd /\ AtReverseHorizon(angle, bReverseSun)
      IN  /\ sunAngle' = angle
          /\ IF moving
             THEN /\ sunVel' = vel
                  /\ lightDiffuse' = colour
                  /\ exposure' = expo
                  /\ glowColor' = lightDiffuse'
                  /\ program' = "sunShader"
                  /\ lightPos' = OrbitPos(sunVel')
                  /\ timer' = timer
                  /\ branch' = IF horizon THEN "horizon" ELSE "zenith"
             ELSE /\ timer' = TimerAfterWait(elapsed, waitOver)
                  /\ branch' = "waiting"
                  /\ UNCHANGED <<sunVel, lightDiffuse, exposure, glowColor,
                                 program, lightPos>>
          /\ bWaiting' = (atFwd \/ atRev \/ stillWaiting)
          /\ bReverseSun' = IF atFwd THEN TRUE
                            ELSE IF atRev THEN FALSE ELSE bReverseSun

\* void AnimateSun(Shader& sunShader), called with the global deltaTime = dt;
\* the calls are counted
AnimateSun(dt) ==
    /\ AnimateSunBody(dt)
    /\ updates' = updates + 1

\* ------------------------------------------------------------------------
\* Heightmap synthesis: FBM and the byte GenerateHeightMap stores
\* ------------------------------------------------------------------------
MaxOctaves == 4                    \* octave counts 1..MaxOctaves are explored

DefaultOctaves     == 6            \* int octaves = 6
DefaultPersistence == 5000         \* float persistence = 0.5f
DefaultLacunarity  == 20000        \* float lacunarity = 2.0f

OctaveCounts == (1 .. MaxOctaves) \cup {DefaultOctaves}

\* values SimplexNoise::noise may return, in [-1, 1]
NoiseValues == {-FX, -3333, 0, 5000, FX}

\* a * b for a large non-negative a, without leaving the 32-bit range
MulBig(a, b) == (a \div FX) * b + Quot((a % FX) * b, FX)

FBMIdle ==
    [pc |-> "idle", octaves |-> 0, i |-> 0, total |-> 0, amplitude |-> 0,
     frequency |-> 0, maxValue |-> 0, noiseValue |-> 0, byte |-> 0]

\* float FBM(...): the locals on entry
FBMEntry(octaves) ==
    [pc |-> "loop", octaves |-> octaves, i |-> 0, total |-> 0, amplitude |-> FX,
     frequency |-> FX, maxValue |-> 0, noiseValue |-> 0, byte |-> 0]

\* variant: the division by the sum of the amplitudes left out
FBMResult_NoNormalise(total, maxValue) == Mul(total + FX, FX \div 2)

\* fbmValue = total / maxValue; return (fbmValue + 1.0f) * 0.5f
FBMResult(total, maxValue) == Mul(Quot(total * FX, maxValue) + FX, FX \div 2)

\* static_cast<unsigned char>(noiseValue * 255)
ToByte(v) == Quot(v * 255, FX) % 256

\* one iteration of for (i = 0; i < octaves; ++i), noise returning n
FBMOctave(n) ==
    /\ fbm.pc = "loop"
    /\ fbm.i < fbm.octaves
    /\ fbm' = [fbm EXCEPT !.total = @ + Mul(n, fbm.amplitude),
                          !.maxValue = @ + fbm.amplitude,
                          !.amplitude = Mul(@, DefaultPersistence),
                          !.frequency = MulBig(@, DefaultLacunarity),
                          !.i = @ + 1]
    /\ UNCHANGED <<mainVars, nm, startup, targetDims, uAspectRatio>>

\* the loop ends: normalise, remap, return to GenerateHeightMap
FBMReturn ==
    /\ fbm.pc = "loop"
    /\ fbm.i >= fbm.octaves
    /\ fbm' = [fbm EXCEPT !.noiseValue = FBMResult(fbm.total, fbm.maxValue),
                          !.pc = "store"]
    /\ UNCHANGED <<mainVars, nm, startup, targetDims, uAspectRatio>>

\* heightMap[(y * textureSize) + x] = static_cast<unsigned char>(noiseValue * 255)
StoreHeight ==
    /\ fbm.pc = "store"
    /\ fbm' = [fbm EXCEPT !.byte = ToByte(fbm.noiseValue), !.pc = "done"]
    /\ UNCHANGED <<mainVars, nm, startup, targetDims, uAspectRatio>>

\* ------------------------------------------------------------------------
\* Normal map derivation: GenerateNormalMap
\* ------------------------------------------------------------------------
MaxSize == 4                       \* texture sizes 1..MaxSize are explored

\* height maps given to GenerateNormalMap: byte grids with different slopes
HeightPatterns == {<<a, b, c>> : a \in {0, 40, 200}, b \in {0, 90}, c \in {0, 17}}

PatternMap(p, size) ==
    [idx \in 0 .. size * size - 1 |->
        (p[1] * (idx % size) + p[2] * (idx \div size) + p[3]) % 256]

\* std::vector<glm::vec3> normalMap(heightMap.size()): value-initialised
DefaultNormal == Vec3(0, 0, 0)

NormalMapIdle ==
    [pc |-> "idle", textureSize |-> 0, heightMap |-> <<>>, normalMap |-> <<>>,
     x |-> 0, y |-> 0, written |-> {}]

\* GenerateNormalMap(heightMap, textureSize): the locals on entry
NormalMapEntry(heightMap, textureSize) ==
    [pc |-> "loop", textureSize |-> textureSize, heightMap |-> heightMap,
     normalMap |-> [idx \in DOMAIN heightMap |-> DefaultNormal],
     x |-> 1, y |-> 1, written |-> {}]

\* variant: heightDown and heightUp exchanged
NormalAt_Flipped(heightMap, size, x, y) ==
    LET heightLeft  == Quot(heightMap[y * size + (x - 1)] * FX, 255)
        heightRight == Quot(heightMap[y * size + (x + 1)] * FX, 255)
        heightDown  == Quot(heightMap[(y - 1) * size + x] * FX, 255)
        heightUp    == Quot(heightMap[(y + 1) * size + x] * FX, 255)
        normal      == Normalize(Vec3(heightLeft - heightRight, heightUp - heightDown, FX))
    IN  Vec3(Mul(normal.x, FX \div 2) + FX \div 2,
             Mul(normal.y, FX \div 2) + FX \div 2,
             Mul(normal.z, FX \div 2) + FX \div 2)

\* the body of the inner loop: the value stored at (x, y)
NormalAt(heightMap, size, x, y) ==
    LET heightLeft  == Quot(heightMap[y * size + (x - 1)] * FX, 255)
        heightRight == Quot(heightMap[y * size + (x + 1)] * FX, 255)
        heightDown  == Quot(heightMap[(y + 1) * size + x] * FX, 255)
        heightUp    == Quot(heightMap[(y - 1) * size + x] * FX, 255)
        normal      == Normalize(Vec3(heightLeft - heightRight, heightUp - heightDown, FX))
    IN  Vec3(Mul(normal.x, FX \div 2) + FX \div 2,
             Mul(normal.y, FX \div 2) + FX \div 2,
             Mul(normal.z, FX \div 2) + FX \div 2)

\* one iteration of for (x = 1; x < textureSize - 1; ++x)
NormalMapWrite ==
    /\ nm.pc = "loop"
    /\ nm.y < nm.textureSize - 1
    /\ nm.x < nm.textureSize - 1
    /\ LET idx == nm.y * nm.textureSize + nm.x
       IN  nm' = [nm EXCEPT
                    !.normalMap[idx] = NormalAt(nm.heightMap, nm.textureSize, nm.x, nm.y),
                    !.written = @ \cup {idx},
                    !.x = @ + 1]
    /\ UNCHANGED <<mainVars, fbm, startup, targetDims, uAspectRatio>>

\* the inner loop ends: ++y, x = 1
NormalMapNextRow ==
    /\ nm.pc = "loop"
    /\ nm.y < nm.textureSize - 1
    /\ nm.x >= nm.textureSize - 1
    /\ nm' = [nm EXCEPT !.y = @ + 1, !.x = 1]
    /\ UNCHANGED <<mainVars, fbm, startup, targetDims, uAspectRatio>>

\* the outer loop ends: return normalMap
NormalMapReturn ==
    /\ nm.pc = "loop"
    /\ nm.y >= nm.textureSize - 1
    /\ nm' = [nm EXCEPT !.pc = "done"]
    /\ UNCHANGED <<mainVars, fbm, startup, targetDims, uAspectRatio>>

\* ------------------------------------------------------------------------
\* Startup: Init() and the resource constructors main() runs before the loop
\* ------------------------------------------------------------------------
\* the objects main() constructs, in order, with the constructor that runs
StartupSteps ==
    << [kind |-> "generated", name |-> "heightMapTexture"],
       [kind |-> "generated", name |-> "normalMapTexture"],
       [kind |-> "file",      name |-> "diffuseMapTextureRocks"],
       [kind |-> "file",      name |-> "diffuseMapTextureSnow"],
       [kind |-> "cubemap",   name |-> "skyboxTexture"],
       [kind |-> "file",      name |-> "colorGradientTex"],
       [kind |-> "file",      name |-> "lensDirtTex"],
       [kind |-> "file",      name |-> "starBurstTex"],
       [kind |-> "shader",    name |-> "proceduralTerrain"],
       [kind |-> "shader",    name |-> "skyboxShader"],
       [kind |-> "shader",    name |-> "sunShader"],
       [kind |-> "shader",    name |-> "downSampleShader"],
       [kind |-> "shader",    name |-> "blurShader"],
       [kind |-> "shader",    name |-> "postProcessShader"],
       [kind |-> "fbo",       name |-> "hdrFBO"],
       [kind |-> "fbo",       name |-> "pingpongFBO0"],
       [kind |-> "fbo",       name |-> "pingpongFBO1"],
       [kind |-> "fbo",       name |-> "downSampledFBO"] >>

\* std::vector<std::string> faces: right, left, up, down, front, back
Faces == 0 .. 5

\* Init() has no return statement on its success path: the value main()
\* compares with -1 is whatever the build leaves in the return register
InitReturnValues == {-1, 0, 1}

\* the stages that can fail in one Shader constructor
ShaderFailures == SUBSET {"read", "vertex", "fragment", "link"}

StartupEntry ==
    [pc |-> "init", step |-> 0, face |-> 0, facesTried |-> {}, facesLoaded |-> {},
     handles |-> {}, diagnostics |-> 0, last |-> {}, initRet |-> 0, exitCode |-> 0]

\* every constructor has run without a failure and main() is in its loop
StartupDone ==
    [pc |-> "loop", step |-> Len(StartupSteps) + 1, face |-> 6, facesTried |-> Faces,
     facesLoaded |-> Faces,
     handles |-> {StartupSteps[k].name : k \in 1 .. Len(StartupSteps)},
     diagnostics |-> 0, last |-> {}, initRet |-> 0, exitCode |-> 0]

\* variant: main() ignores the value Init() returns
MainAfterInit_Ignored(ret) == "resources"

\* if (Init() == -1) return -1;
MainAfterInit(ret) == IF ret = -1 THEN "exited" ELSE "resources"

\* Init() and the test main() makes on its result
CallInit(windowOk, gladOk, ret) ==
    /\ startup.pc = "init"
    /\ LET failed == IF ~windowOk THEN {"window"}
                     ELSE IF ~gladOk THEN {"glad"} ELSE {}
           value  == IF failed # {} THEN -1 ELSE ret
           next   == MainAfterInit(value)
       IN  startup' = [startup EXCEPT
                         !.last = failed,
                         !.diagnostics = @ + Cardinality(failed),
                         !.initRet = value,
                         !.pc = next,
                         !.step = IF next = "resources" THEN 1 ELSE @,
                         !.exitCode = IF next = "exited" THEN -1 ELSE @]
    /\ UNCHANGED <<mainVars, fbm, nm, targetDims, uAspectRatio>>

CurrentStep == StartupSteps[startup.step]

AtStep(kind) ==
    /\ startup.pc = "resources"
    /\ startup.step <= Len(StartupSteps)
    /\ CurrentStep.kind = kind

\* Texture(heightMap, size) and Texture(normalMap, size): upload, no load
GeneratedTexture ==
    /\ AtStep("generated")
    /\ startup' = [startup EXCEPT !.handles = @ \cup {CurrentStep.name},
                                  !.last = {}, !.step = @ + 1]
    /\ UNCHANGED <<mainVars, fbm, nm, targetDims, uAspectRatio>>

\* Texture(const char*, bool): glGenTextures, stbi_load, upload or message
FileTexture(loaded) ==
    /\ AtStep("file")
    /\ startup' = [startup EXCEPT
                     !.handles = @ \cup {CurrentStep.name},
                     !.last = IF loaded THEN {} ELSE {"decode"},
                     !.diagnostics = IF loaded THEN @ ELSE @ + 1,
                     !.step = @ + 1]
    /\ UNCHANGED <<mainVars, fbm, nm, targetDims, uAspectRatio>>

\* Texture(faces): glGenTextures, glBindTexture, i = 0
CubemapBegin ==
    /\ AtStep("cubemap")
    /\ CurrentStep.name \notin startup.handles
    /\ startup' = [startup EXCEPT !.handles = @ \cup {CurrentStep.name},
                                  !.last = {}, !.face = 0]
    /\ UNCHANGED <<mainVars, fbm, nm, targetDims, uAspectRatio>>

\* variant: the loop is left at the first face that fails to load
NextFace_Break(face, loaded) == IF loaded THEN face + 1 ELSE Cardinality(Faces)

\* i++ at the end of either branch
NextFace(face, loaded) == face + 1

\* one iteration of for (i = 0; i < faces.size(); i++)
CubemapFace(loaded) ==
    /\ AtStep("cubemap")
    /\ CurrentStep.name \in startup.handles
    /\ startup.face < Cardinality(Faces)
    /\ startup' = [startup EXCEPT
                     !.facesTried = @ \cup {startup.face},
                     !.facesLoaded = IF loaded THEN @ \cup {startup.face} ELSE @,
                     !.last = IF loaded THEN {} ELSE {"face"},
                     !.diagnostics = IF loaded THEN @ ELSE @ + 1,
                     !.face = NextFace(startup.face, loaded)]
    /\ UNCHANGED <<mainVars, fbm, nm, targetDims, uAspectRatio>>

\* the loop ends: texture parameters, unbind
CubemapEnd ==
    /\ AtStep("cubemap")
    /\ CurrentStep.name \in startup.handles
    /\ startup.face >= Cardinality(Faces)
    /\ startup' = [startup EXCEPT !.last = {}, !.step = @ + 1]
    /\ UNCHANGED <<mainVars, fbm, nm, targetDims, uAspectRatio>>

\* Shader(vertexPath, fragmentPath): read, compile twice, link; ID is set
ShaderCtor(failed) ==
    /\ AtStep("shader")
    /\ startup' = [startup EXCEPT
                     !.handles = @ \cup {CurrentStep.name},
                     !.last = failed,
                     !.diagnostics = @ + Cardinality(failed),
                     !.step = @ + 1]
    /\ UNCHANGED <<mainVars, fbm, nm, targetDims, uAspectRatio>>

\* glGenFramebuffers ... if (glCheckFramebufferStatus(...) != COMPLETE) cout
FramebufferSetup(complete) ==
    /\ AtStep("fbo")
    /\ startup' = [startup EXCEPT
                     !.handles = @ \cup {CurrentStep.name},
                     !.last = IF complete THEN {} ELSE {"incomplete"},
                     !.diagnostics = IF complete THEN @ ELSE @ + 1,
                     !.step = @ + 1]
    /\ UNCHANGED <<mainVars, fbm, nm, targetDims, uAspectRatio>>

\* the uniforms are set and the first loop test is reached
EnterLoop ==
    /\ startup.pc = "resources"
    /\ startup.step > Len(StartupSteps)
    /\ startup' = [startup EXCEPT !.pc = "loop", !.last = {}]
    /\ UNCHANGED <<mainVars, fbm, nm, targetDims, uAspectRatio>>

\* ------------------------------------------------------------------------
\* GL objects created by main() before the render loop
\* ------------------------------------------------------------------------
SCR_WIDTH  == 1920
SCR_HEIGHT == 1080
downSampleFactor == 4

PassSeq == <<"scene", "downsample", "blur", "composite">>

\* unsigned int pingpongFBO[2], pingpongColorbuffers[2], indexed by a bool
pingpongFBO(b) == IF b THEN "pingpongFBO1" ELSE "pingpongFBO0"
pingpongColorbuffers(b) == IF b THEN "pingpongColor1" ELSE "pingpongColor0"

\* variant: both ping-pong framebuffers attached to the same texture
Attachments_Shared(fbo) ==
    CASE fbo = "hdrFBO"         -> {"colorBuffer0", "colorBuffer1"}
      [] fbo = "pingpongFBO0"   -> {"pingpongColor0"}
      [] fbo = "pingpongFBO1"   -> {"pingpongColor0"}
      [] fbo = "downSampledFBO" -> {"downSampledTex"}
      [] OTHER                  -> {"display"}

\* colour attachments of each framebuffer (glFramebufferTexture2D calls)
Attachments(fbo) ==
    CASE fbo = "hdrFBO"         -> {"colorBuffer0", "colorBuffer1"}
      [] fbo = "pingpongFBO0"   -> {"pingpongColor0"}
      [] fbo = "pingpongFBO1"   -> {"pingpongColor1"}
      [] fbo = "downSampledFBO" -> {"downSampledTex"}
      [] OTHER                  -> {"display"}

\* variant: the blur shader's "image" sampler set to unit 1
SamplerUnits_ImageOnOne(prog) ==
    CASE prog = "proceduralTerrain" -> {0, 1, 2, 3}
      [] prog = "downSampleShader"  -> {0}
      [] prog = "blurShader"        -> {1}
      [] prog = "postProcessShader" -> {0, 1, 2, 3, 4, 5}
      [] OTHER                      -> {}

\* texture units the samplers of each program were set to (setInt calls)
SamplerUnits(prog) ==
    CASE prog = "proceduralTerrain" -> {0, 1, 2, 3}
      [] prog = "downSampleShader"  -> {0}
      [] prog = "blurShader"        -> {0}
      [] prog = "postProcessShader" -> {0, 1, 2, 3, 4, 5}
      [] OTHER                      -> {}

\* glActiveTexture(GL_TEXTURE0 + u); glBindTexture(GL_TEXTURE_2D, t), in order
RECURSIVE BindAll(_, _)
BindAll(units, binds) ==
    IF binds = <<>> THEN units
    ELSE BindAll([units EXCEPT ![Head(binds)[1]] = Head(binds)[2]], Tail(binds))

\* glTexImage2D sizes of the attached textures
AllocatedDims ==
    [t \in {"colorBuffer0", "colorBuffer1", "pingpongColor0", "pingpongColor1",
            "downSampledTex"} |->
        IF t = "downSampledTex"
        THEN <<SCR_WIDTH \div downSampleFactor, SCR_HEIGHT \div downSampleFactor>>
        ELSE <<SCR_WIDTH, SCR_HEIGHT>>]

\* framebuffer sizes the window system reports on a resize
ResizeSizes == {<<1280, 720>>, <<2560, 1440>>}

\* one draw call: what the bound program samples and what it renders into
Draw(pass, prog, fbo, units) ==
    [pass   |-> pass,
     fbo    |-> fbo,
     reads  |-> [u \in SamplerUnits(prog) |-> units[u]],
     writes |-> Attachments(fbo)]

\* ------------------------------------------------------------------------
\* Initial state: the globals as initialised, the GL context as main()
\* leaves it on reaching the render loop
\* ------------------------------------------------------------------------
LoopInit ==
    /\ lightPos = Vec3(0, 1000, 0)
    /\ lightDiffuse = WHITE
    /\ exposure = maxExposure
    /\ sunAngle = SunAngleInit
    /\ sunVel = 0
    /\ timer = 0
    /\ bReverseSun = FALSE
    /\ bWaiting = FALSE
    /\ deltaTime = 0
    /\ glowColor = WHITE
    /\ updates = 0
    /\ branch = "none"
    /\ pc = "loop"
    /\ frame = 0
    /\ amount \in Amounts
    /\ horizontal = TRUE
    /\ first_iteration = TRUE
    /\ i = 0
    /\ boundFBO = "default"
    /\ activeTexture = 0
    /\ texUnit = [u \in 0 .. 5 |-> IF u = 0 THEN "downSampledTex" ELSE "none"]
    /\ program = "sunShader"
    /\ viewport = <<SCR_WIDTH, SCR_HEIGHT>>
    /\ uLightPos = Vec3(0, 0, 0)
    /\ uExposure = 0
    /\ passLog = <<>>
    /\ drawLog = <<>>
    /\ sceneUpdates = 0
    /\ compUpdates = 0

\* the generators have returned when main() reaches the render loop
AuxAtLoop ==
    /\ fbm = FBMIdle
    /\ nm = NormalMapIdle
    /\ startup = StartupDone
    /\ targetDims = AllocatedDims
    /\ uAspectRatio = 0

Init == LoopInit /\ AuxAtLoop

\* ------------------------------------------------------------------------
\* The render loop of main()
\* ------------------------------------------------------------------------
\* while (!glfwWindowShouldClose(window)): delta time, input, clear
FrameBegin(dt) ==
    /\ pc = "loop"
    /\ frame < MaxFrames
    /\ deltaTime' = dt
    /\ frame' = frame + 1
    /\ passLog' = <<>>
    /\ drawLog' = <<>>
    /\ pc' = "scene"
    /\ UNCHANGED <<sunVars, amount, horizontal, first_iteration, i, glVars,
                   program, uLightPos, uExposure, sceneUpdates, compUpdates>>
    /\ UNCHANGED auxVars

\* the loop condition fails: glfwTerminate()
WindowClose ==
    /\ pc = "loop"
    /\ pc' = "terminated"
    /\ UNCHANGED <<sunVars, deltaTime, frame, amount, horizontal,
                   first_iteration, i, glVars, program, histVars>>
    /\ UNCHANGED auxVars

\* bind hdrFBO, clear, RenderProceduralTerrain, RenderSun, RenderSkybox
ScenePass ==
    /\ pc = "scene"
    /\ boundFBO' = "hdrFBO"
    /\ uLightPos' = lightPos
    /\ sceneUpdates' = updates
    /\ LET units == BindAll(texUnit, << <<0, "rocksTex">>, <<1, "snowTex">>,
                                        <<2, "normalMapTex">>, <<3, "heightMapTex">> >>)
       IN  /\ texUnit' = units
           /\ drawLog' = drawLog \o
                << Draw("scene", "proceduralTerrain", "hdrFBO", units),
                   Draw("scene", "sunShader", "hdrFBO", units),
                   Draw("scene", "skyboxShader", "hdrFBO", units) >>
    /\ activeTexture' = 0
    /\ program' = "skyboxShader"
    /\ passLog' = Append(passLog, "scene")
    /\ pc' = "animate"
    /\ UNCHANGED <<sunVars, deltaTime, frame, amount, horizontal,
                   first_iteration, i, viewport, uExposure, compUpdates>>
    /\ UNCHANGED auxVars

\* AnimateSun(sunShader); glBindFramebuffer(GL_FRAMEBUFFER, 0)
AnimateSunStep ==
    /\ pc = "animate"
    /\ AnimateSun(deltaTime)
    /\ boundFBO' = "default"
    /\ pc' = "downsample"
    /\ UNCHANGED <<deltaTime, frame, amount, horizontal, first_iteration, i,
                   activeTexture, texUnit, viewport, histVars>>
    /\ UNCHANGED auxVars

\* variant: the downsample pass left out of the frame
DownsamplePass_Skipped ==
    /\ pc = "downsample"
    /\ pc' = "blurBegin"
    /\ UNCHANGED <<sunVars, deltaTime, frame, amount, horizontal,
                   first_iteration, i, glVars, program, histVars>>
    /\ UNCHANGED auxVars

\* viewport, clear, bind downSampledFBO, sample colorBuffer[1], draw, unbind
DownsamplePass ==
    /\ pc = "downsample"
    /\ viewport' = <<SCR_WIDTH \div downSampleFactor, SCR_HEIGHT \div downSampleFactor>>
    /\ program' = "downSampleShader"
    /\ activeTexture' = 0
    /\ LET units == BindAll(texUnit, << <<0, "colorBuffer1">> >>)
       IN  /\ texUnit' = units
           /\ drawLog' = Append(drawLog,
                  Draw("downsample", "downSampleShader", "downSampledFBO", units))
    /\ boundFBO' = "default"
    /\ passLog' = Append(passLog, "downsample")
    /\ pc' = "blurBegin"
    /\ UNCHANGED <<sunVars, deltaTime, frame, amount, horizontal,
                   first_iteration, i, uLightPos, uExposure, sceneUpdates,
                   compUpdates>>
    /\ UNCHANGED auxVars

\* viewport; horizontal = true, first_iteration = true; blurShader.use()
BlurBegin ==
    /\ pc = "blurBegin"
    /\ viewport' = <<SCR_WIDTH, SCR_HEIGHT>>
    /\ horizontal' = TRUE
    /\ first_iteration' = TRUE
    /\ i' = 0
    /\ program' = "blurShader"
    /\ passLog' = Append(passLog, "blur")
    /\ pc' = "blurLoop"
    /\ UNCHANGED <<sunVars, deltaTime, frame, amount, boundFBO, activeTexture,
                   texUnit, uLightPos, uExposure, drawLog, sceneUpdates,
                   compUpdates>>
    /\ UNCHANGED auxVars

\* variant: the toggle of horizontal left out
NextHorizontal_Stuck(horiz) == horiz

\* horizontal = !horizontal
NextHorizontal(horiz) == ~horiz

\* variant: the loop samples the target it renders into
BlurSource_SameTarget(first, horiz) ==
    IF first THEN "downSampledTex" ELSE pingpongColorbuffers(horiz)

\* texture bound inside the loop body
BlurSource(first, horiz) ==
    IF first THEN "downSampledTex" ELSE pingpongColorbuffers(~horiz)

\* one iteration of for (i = 0; i < amount; i++)
BlurIteration ==
    /\ pc = "blurLoop"
    /\ i < amount
    /\ boundFBO' = pingpongFBO(horizontal)
    /\ LET units == BindAll(texUnit,
                       << <<activeTexture, BlurSource(first_iteration, horizontal)>> >>)
       IN  /\ texUnit' = units
           /\ drawLog' = Append(drawLog,
                  Draw("blur", program, pingpongFBO(horizontal), units))
    /\ horizontal' = NextHorizontal(horizontal)
    /\ first_iteration' = FALSE
    /\ i' = i + 1
    /\ UNCHANGED <<sunVars, deltaTime, pc, frame, amount, activeTexture,
                   program, viewport, uLightPos, uExposure, passLog,
                   sceneUpdates, compUpdates>>
    /\ UNCHANGED auxVars

\* the loop ends: glBindFramebuffer(GL_FRAMEBUFFER, 0)
BlurEnd ==
    /\ pc = "blurLoop"
    /\ i >= amount
    /\ boundFBO' = "default"
    /\ pc' = "composite"
    /\ UNCHANGED <<sunVars, deltaTime, frame, amount, horizontal,
                   first_iteration, i, activeTexture, texUnit, program,
                   viewport, histVars>>
    /\ UNCHANGED auxVars

\* variant: the composite pass samples the target written one iteration earlier
CompositeBloomInput_Stale(horiz) == pingpongColorbuffers(horiz)

\* pingpongColorbuffers[!horizontal], the bloom input of the composite pass
CompositeBloomInput(horiz) == pingpongColorbuffers(~horiz)

\* setFloat("aspectRatio", SCR_WIDTH / SCR_HEIGHT): both operands are
\* unsigned int, so the quotient is an integer before it becomes a float
AspectRatioArg == (SCR_WIDTH \div SCR_HEIGHT) * FX

\* clear, postProcessShader.use(), bind units 0..5, uniforms, draw to display
CompositePass ==
    /\ pc = "composite"
    /\ program' = "postProcessShader"
    /\ LET units == BindAll(texUnit,
                       << <<0, "colorBuffer0">>,
                          <<1, CompositeBloomInput(horizontal)>>,
                          <<2, "downSampledTex">>,
                          <<3, "colorGradientTex">>,
                          <<4, "lensDirtTex">>,
                          <<5, "starBurstTex">> >>)
       IN  /\ texUnit' = units
           /\ drawLog' = Append(drawLog,
                  Draw("composite", "postProcessShader", boundFBO, units))
    /\ activeTexture' = 5
    /\ uExposure' = exposure
    /\ compUpdates' = updates
    /\ uAspectRatio' = AspectRatioArg
    /\ passLog' = Append(passLog, "composite")
    /\ pc' = "events"
    /\ UNCHANGED <<sunVars, deltaTime, frame, amount, horizontal,
                   first_iteration, i, boundFBO, viewport, uLightPos,
                   sceneUpdates>>
    /\ UNCHANGED <<fbm, nm, startup, targetDims>>

\* variant: the callback also gives every target the new size
TargetsAfterResize_Realloc(dims, size) == [t \in DOMAIN dims |-> size]

\* framebuffer_size_callback touches no texture and no framebuffer
TargetsAfterResize(dims, size) == dims

\* glfwPollEvents() delivers a resize: framebuffer_size_callback(w, h)
FramebufferResize(size) ==
    /\ pc = "events"
    /\ viewport' = size
    /\ targetDims' = TargetsAfterResize(targetDims, size)
    /\ UNCHANGED <<sunVars, deltaTime, loopVars, boundFBO, activeTexture,
                   texUnit, program, histVars>>
    /\ UNCHANGED <<fbm, nm, startup, uAspectRatio>>

\* glfwPollEvents(); glfwSwapBuffers(window)
PresentFrame ==
    /\ pc = "events"
    /\ pc' = "loop"
    /\ UNCHANGED <<sunVars, deltaTime, frame, amount, horizontal,
                   first_iteration, i, glVars, program, histVars>>
    /\ UNCHANGED auxVars

Next ==
    \/ \E dt \in DeltaTimes : FrameBegin(dt)
    \/ WindowClose
    \/ ScenePass
    \/ AnimateSunStep
    \/ DownsamplePass
    \/ BlurBegin
    \/ BlurIteration
    \/ BlurEnd
    \/ CompositePass
    \/ \E size \in ResizeSizes : FramebufferResize(size)
    \/ PresentFrame

Spec == Init /\ [][Next]_vars

\* ------------------------------------------------------------------------
\* The controller on its own: one AnimateSun call per frame, the frame time
\* being whatever the loop measures; the rendering of the frame is left out
\* ------------------------------------------------------------------------
SunUpdate(dt) ==
    /\ updates < MaxUpdates
    /\ deltaTime' = dt
    /\ AnimateSun(dt)
    /\ UNCHANGED <<loopVars, glVars, histVars>>
    /\ UNCHANGED auxVars

InitSun == Init /\ amount = gaussianBlurIntensity

NextSun == \E dt \in DeltaTimes : SunUpdate(dt)

SpecSun == InitSun /\ [][NextSun]_vars

\* ------------------------------------------------------------------------
\* The controller at a constant frame rate: every frame measures the same
\* frame time (1/60 s or 1/15 s) and the loop calls AnimateSun in each frame
\* ------------------------------------------------------------------------
ConstFrameTimes == {167, 667}

SunTick(dt) ==
    /\ deltaTime \in {0, dt}
    /\ deltaTime' = dt
    /\ AnimateSunBody(dt)
    /\ UNCHANGED <<updates, loopVars, glVars, histVars>>
    /\ UNCHANGED auxVars

NextSunConst == \E dt \in ConstFrameTimes : SunTick(dt)

SpecSunConst == InitSun /\ [][NextSunConst]_vars /\ WF_vars(NextSunConst)

\* ------------------------------------------------------------------------
\* One FBM call and the store of its result, for each octave count
\* ------------------------------------------------------------------------
InitFBM ==
    /\ LoopInit
    /\ amount = gaussianBlurIntensity
    /\ fbm \in {FBMEntry(o) : o \in OctaveCounts}
    /\ nm = NormalMapIdle
    /\ startup = StartupDone
    /\ targetDims = AllocatedDims
    /\ uAspectRatio = 0

NextFBM ==
    \/ \E n \in NoiseValues : FBMOctave(n)
    \/ FBMReturn
    \/ StoreHeight

SpecFBM == InitFBM /\ [][NextFBM]_vars

\* ------------------------------------------------------------------------
\* One GenerateNormalMap call, for each texture size and height pattern
\* ------------------------------------------------------------------------
InitNormalMap ==
    /\ LoopInit
    /\ amount = gaussianBlurIntensity
    /\ fbm = FBMIdle
    /\ startup = StartupDone
    /\ targetDims = AllocatedDims
    /\ uAspectRatio = 0
    /\ nm \in {NormalMapEntry(PatternMap(p, size), size) :
                  p \in HeightPatterns, size \in 1 .. MaxSize}

NextNormalMap ==
    \/ NormalMapWrite
    \/ NormalMapNextRow
    \/ NormalMapReturn

SpecNormalMap == InitNormalMap /\ [][NextNormalMap]_vars

\* ------------------------------------------------------------------------
\* main() from its first statement to the render loop, any load may fail
\* ------------------------------------------------------------------------
InitStartup ==
    /\ LoopInit
    /\ amount = gaussianBlurIntensity
    /\ fbm = FBMIdle
    /\ nm = NormalMapIdle
    /\ startup = StartupEntry
    /\ targetDims = AllocatedDims
    /\ uAspectRatio = 0

NextStartup ==
    \/ \E windowOk \in BOOLEAN, gladOk \in BOOLEAN, ret \in InitReturnValues :
          CallInit(windowOk, gladOk, ret)
    \/ GeneratedTexture
    \/ \E loaded \in BOOLEAN : FileTexture(loaded)
    \/ CubemapBegin
    \/ \E loaded \in BOOLEAN : CubemapFace(loaded)
    \/ CubemapEnd
    \/ \E failed \in ShaderFailures : ShaderCtor(failed)
    \/ \E complete \in BOOLEAN : FramebufferSetup(complete)
    \/ EnterLoop

SpecStartup == InitStartup /\ [][NextStartup]_vars

\* ------------------------------------------------------------------------
\* Helpers of the properties
\* ------------------------------------------------------------------------
IsPrefix(s, t) == Len(s) <= Len(t) /\ \A k \in 1 .. Len(s) : s[k] = t[k]

DrawPasses == [k \in 1 .. Len(drawLog) |-> drawLog[k].pass]

DrawsOf(pass) == LET Of(d) == d.pass = pass IN SelectSeq(drawLog, Of)

\* draws a complete frame issues: terrain, sun, skybox; one downsample;
\* one per blur iteration; one composite
ExpectedDraws(n) ==
    <<"scene", "scene", "scene", "downsample">> \o [k \in 1 .. n |-> "blur"]
        \o <<"composite">>

ExpectedCount(pass, n) ==
    CASE pass = "scene" -> 3 [] pass = "downsample" -> 1
      [] pass = "blur" -> n [] OTHER -> 1

FrameComplete == frame >= 1 /\ pc \in {"events", "loop", "terminated"}

\* the textures main() attaches to its framebuffers
OffScreenTargets ==
    {"colorBuffer0", "colorBuffer1", "downSampledTex", "pingpongColor0", "pingpongColor1"}

\* position of a pass in the frame
PassIndex(pass) == CHOOSE k \in 1 .. Len(PassSeq) : PassSeq[k] = pass

\* the off-screen targets draw k samples
TargetsRead(k) ==
    {drawLog[k].reads[u] : u \in DOMAIN drawLog[k].reads} \cap OffScreenTargets

\* a step that is one AnimateSun call
IsUpdate == updates' = updates + 1

\* ------------------------------------------------------------------------
\* C1: in every frame the four passes run once each, in the order scene,
\* downsample, blur, composite; a pass is entered only when the previous one
\* has issued all its draws; at the end of the frame none is missing.
\* ------------------------------------------------------------------------
C1_PassOrder ==
    /\ IsPrefix(passLog, PassSeq)
    /\ IsPrefix(DrawPasses, ExpectedDraws(amount))
    /\ \A k \in 2 .. Len(passLog) :
          Len(DrawsOf(PassSeq[k - 1])) = ExpectedCount(PassSeq[k - 1], amount)
    /\ FrameComplete =>
          /\ passLog = PassSeq
          /\ DrawPasses = ExpectedDraws(amount)

C1_Witness == pc = "events" /\ frame = 2 /\ amount = 2 /\ Len(drawLog) = 7

\* ------------------------------------------------------------------------
\* C2: the controller update of a frame runs before the scene pass of that
\* frame draws, so scene pass and composite pass of frame n both use the
\* state of update n.  (Stated as claimed; the code updates after the
\* scene draws.)
\* ------------------------------------------------------------------------
C2_UpdateBeforeScene ==
    /\ (frame >= 1 /\ pc \notin {"scene", "loop", "terminated"})
          => sceneUpdates = frame
    /\ pc = "events" => compUpdates = frame

\* ------------------------------------------------------------------------
\* C3: the first blur iteration samples the downsampled target; every later
\* one samples the ping-pong target the previous iteration rendered into and
\* renders into the other; no iteration samples its own render target.
\* ------------------------------------------------------------------------
C3_PingPong ==
    LET B == DrawsOf("blur")
    IN  \A k \in 1 .. Len(B) :
          /\ B[k].reads[0] \notin B[k].writes
          /\ k = 1 => B[k].reads[0] = "downSampledTex"
          /\ k > 1 => /\ B[k - 1].writes = {B[k].reads[0]}
                      /\ B[k].writes # B[k - 1].writes
                      /\ B[k].writes \subseteq {"pingpongColor0", "pingpongColor1"}

C3_Witness == pc = "blurLoop" /\ i = 3 /\ Len(DrawsOf("blur")) = 3

\* ------------------------------------------------------------------------
\* C4: for an iteration count >= 1 the composite pass samples, on unit 1,
\* the ping-pong target the last blur iteration of the frame rendered into,
\* with colorBuffer[0] on unit 0 and the downsampled target on unit 2.
\* ------------------------------------------------------------------------
C4_CompositeInputs ==
    (FrameComplete /\ amount >= 1) =>
        LET B == DrawsOf("blur")
            C == DrawsOf("composite")
        IN  /\ Len(C) = 1
            /\ B[Len(B)].writes = {C[1].reads[1]}
            /\ C[1].reads[0] = "colorBuffer0"
            /\ C[1].reads[2] = "downSampledTex"
            /\ C[1].writes = {"display"}

C4_Witness == pc = "events" /\ amount = 3 /\ texUnit[1] = "pingpongColor1"

\* ------------------------------------------------------------------------
\* C5: the targets bound at the boundaries of the blur stage.
\* ------------------------------------------------------------------------
\* horizontal after n iterations of the blur loop
RECURSIVE HorizontalAfter(_)
HorizontalAfter(n) == IF n = 0 THEN TRUE ELSE NextHorizontal(HorizontalAfter(n - 1))

\* C5 as claimed: whatever the iteration count, the first blur iteration
\* samples the same target and the composite pass samples the same
\* ping-pong target as it would with any other count.
C5_SameForAllCounts ==
    (FrameComplete /\ amount >= 1) =>
        /\ DrawsOf("blur")[1].reads[0] = "downSampledTex"
        /\ \A n \in Amounts \ {0} :
              DrawsOf("composite")[1].reads[1] = CompositeBloomInput(HorizontalAfter(n))

\* C5 as amended: the first blur iteration always samples the downsampled
\* target; the ping-pong target the composite pass samples is fixed by the
\* parity of the count: pingpongColorbuffers[1] after an odd number of
\* iterations, pingpongColorbuffers[0] after an even number (0 included).
C5_ParityBinding ==
    FrameComplete =>
        /\ amount >= 1 => DrawsOf("blur")[1].reads[0] = "downSampledTex"
        /\ DrawsOf("composite")[1].reads[1] =
              IF amount % 2 = 1 THEN "pingpongColor1" ELSE "pingpongColor0"

C5_Witness == pc = "events" /\ amount = 2 /\ texUnit[1] = "pingpongColor0"

\* ------------------------------------------------------------------------
\* C6: exposure stays within [minExposure, maxExposure] after any sequence
\* of updates.  (Stated as claimed; glm::mix is not clamped.)
\* ------------------------------------------------------------------------
C6_ExposureBounded == minExposure <= exposure /\ exposure <= maxExposure

\* ------------------------------------------------------------------------
\* C7: a Moving update that computes an angle below 5 degrees travelling
\* forward, or above 175 degrees travelling in reverse, ends with the
\* controller Waiting and the direction flag flipped.
\* ------------------------------------------------------------------------
C7_HorizonEntersWaiting ==
    [][ (IsUpdate /\ ~bWaiting /\
            ((sunAngle' < 500 /\ ~bReverseSun) \/ (sunAngle' > 17500 /\ bReverseSun)))
        => (bWaiting' /\ bReverseSun' = ~bReverseSun) ]_vars

\* the reverse horizon is reached, after the forward one
C7_Witness ==
    bWaiting /\ ~bReverseSun /\ sunAngle > 17500 /\ branch \in {"horizon", "zenith"}

\* ------------------------------------------------------------------------
\* C8: a Waiting update keeps the direction flag; it keeps Waiting and
\* accumulates the frame time while the accumulated time is below idleTime,
\* and the first update that reaches idleTime ends Waiting (and does not
\* re-enter it).
\* ------------------------------------------------------------------------
C8_WaitingEnds ==
    [][ (IsUpdate /\ bWaiting) =>
          /\ bReverseSun' = bReverseSun
          /\ timer + deltaTime' >= idleTime => ~bWaiting'
          /\ timer + deltaTime' < idleTime =>
                (bWaiting' /\ timer' = timer + deltaTime') ]_vars

\* Waiting was left by an update that completed an accumulated second
C8_Witness ==
    ~bWaiting /\ branch = "waiting" /\ bReverseSun /\ deltaTime = 2500 /\ sunAngle < 500

\* ------------------------------------------------------------------------
\* C9: Moving -> Waiting and a change of the direction flag happen only in
\* a Moving update whose angle is beyond the 5 / 175 degree threshold of
\* the direction of travel; Waiting -> Moving only in an update at which
\* the accumulated time has reached idleTime; the update that starts from
\* the initial angle 999.99 makes no transition.
\* ------------------------------------------------------------------------
C9_TransitionsOnlyAtThresholds ==
    [][ IsUpdate =>
          LET beyond == (sunAngle' < 500 /\ ~bReverseSun)
                           \/ (sunAngle' > 17500 /\ bReverseSun)
          IN  /\ (~bWaiting /\ bWaiting') => beyond
              /\ bReverseSun' # bReverseSun => (~bWaiting /\ beyond)
              /\ (bWaiting /\ ~bWaiting') => timer + deltaTime' >= idleTime
              /\ sunAngle = SunAngleInit =>
                    (~bWaiting' /\ bReverseSun' = bReverseSun /\ sunAngle' # SunAngleInit)
      ]_vars

C9_Witness == bWaiting /\ bReverseSun /\ timer = 0 /\ sunAngle < 500 /\ branch = "horizon"

\* ------------------------------------------------------------------------
\* C10: a Moving update takes the warm branch (colour toward ORANGE,
\* exposure toward minExposure) exactly when (angle < 89.9 and forward) or
\* (angle > 90.1 and reverse); otherwise, in particular for an angle in
\* [89.9, 90.1] in either direction, colour goes toward WHITE and exposure
\* toward maxExposure.
\* ------------------------------------------------------------------------
C10_ZenithBand ==
    [][ (IsUpdate /\ ~bWaiting) =>
          LET warm == (sunAngle' < 8990 /\ ~bReverseSun)
                         \/ (sunAngle' > 9010 /\ bReverseSun)
              t    == EaseInOutSine(deltaTime') * 10
          IN  /\ (branch' = "horizon") <=> warm
              /\ (branch' = "zenith") <=> ~warm
              /\ exposure' = Mix(exposure, IF warm THEN minExposure ELSE maxExposure, t)
              /\ lightDiffuse' = MixVec(lightDiffuse, IF warm THEN ORANGE ELSE WHITE, t)
      ]_vars

\* the scenario of the claim: the angle is exactly 90 degrees
C10_Witness == updates = 1 /\ sunAngle = 9000 /\ branch = "zenith" /\ exposure = maxExposure

\* ------------------------------------------------------------------------
\* C11: for every octave count >= 1, with noise values in [-1, 1], FBM
\* returns a value in [0, 1], and the byte stored in the height map is
\* that value times 255, in 0..255, with no wrap-around.
\* ------------------------------------------------------------------------
C11_FBMRange ==
    /\ fbm.pc \in {"store", "done"} =>
          (0 <= fbm.noiseValue /\ fbm.noiseValue <= FX)
    /\ fbm.pc = "done" =>
          (fbm.byte = Quot(fbm.noiseValue * 255, FX) /\ fbm.byte \in 0 .. 255)

\* all six default octaves at the top of the noise range: the largest byte
C11_Witness ==
    fbm.pc = "done" /\ fbm.octaves = DefaultOctaves /\ fbm.noiseValue = FX /\ fbm.byte = 255

\* ------------------------------------------------------------------------
\* C12: GenerateNormalMap returns as many samples as the height grid has;
\* it writes interior samples only (1 <= x, y <= size - 2), each as
\* normalize(h(x-1,y) - h(x+1,y), h(x,y-1) - h(x,y+1), 1) * 0.5 + 0.5; the
\* border keeps the default value; for size < 3 nothing is written.
\* ------------------------------------------------------------------------
C12_InteriorOnly ==
    LET size == nm.textureSize
        H(x, y) == Quot(nm.heightMap[y * size + x] * FX, 255)
        Interior == {idx \in DOMAIN nm.heightMap :
                        /\ 1 <= idx % size /\ idx % size <= size - 2
                        /\ 1 <= idx \div size /\ idx \div size <= size - 2}
        Expected(x, y) ==
            LET n == Normalize(Vec3(H(x - 1, y) - H(x + 1, y),
                                    H(x, y - 1) - H(x, y + 1), FX))
            IN  Vec3(Mul(n.x, 5000) + 5000, Mul(n.y, 5000) + 5000, Mul(n.z, 5000) + 5000)
    IN  nm.pc # "idle" =>
          /\ DOMAIN nm.normalMap = DOMAIN nm.heightMap
          /\ Cardinality(DOMAIN nm.normalMap) = size * size
          /\ nm.written \subseteq Interior
          /\ \A idx \in DOMAIN nm.normalMap \ nm.written : nm.normalMap[idx] = DefaultNormal
          /\ \A idx \in nm.written :
                nm.normalMap[idx] = Expected(idx % size, idx \div size)
          /\ nm.pc = "done" => nm.written = Interior
          /\ size < 3 => nm.written = {}

\* a 4x4 grid with slopes in both directions: four interior samples written
C12_Witness ==
    /\ nm.pc = "done" /\ nm.textureSize = 4 /\ Cardinality(nm.written) = 4
    /\ nm.normalMap[5].x # 5000 /\ nm.normalMap[5].y # 5000
    /\ nm.normalMap[0] = DefaultNormal

\* ------------------------------------------------------------------------
\* C13 as stated: every read of an off-screen target by a pass comes after
\* a write of that target by an EARLIER pass of the same frame (scene <
\* downsample < blur < composite).  Stated for the program's own iteration
\* count.
\* ------------------------------------------------------------------------
C13_ReadAfterEarlierPass ==
    amount = gaussianBlurIntensity =>
        \A k \in 1 .. Len(drawLog) : \A t \in TargetsRead(k) :
            \E j \in 1 .. k - 1 :
                /\ t \in drawLog[j].writes
                /\ PassIndex(drawLog[j].pass) < PassIndex(drawLog[k].pass)

\* ------------------------------------------------------------------------
\* C13 amended: each off-screen target has one writing pass (HDR channels:
\* scene, downsampled target: downsample, ping-pong targets: blur); with at
\* least one blur iteration every read of an off-screen target follows a
\* write of it earlier in the same frame, by an earlier pass or, inside the
\* blur pass, by the iteration just before; with at least two iterations
\* every off-screen target has been written by exactly one pass when the
\* frame is complete.
\* ------------------------------------------------------------------------
C13_SingleWriterReadAfterWrite ==
    LET WriterPass(t) ==
            CASE t \in {"colorBuffer0", "colorBuffer1"} -> "scene"
              [] t = "downSampledTex" -> "downsample"
              [] OTHER -> "blur"
        Writers(t) == {drawLog[k].pass : k \in {j \in 1 .. Len(drawLog) : t \in drawLog[j].writes}}
    IN  /\ \A t \in OffScreenTargets : Writers(t) \subseteq {WriterPass(t)}
        /\ amount >= 1 =>
             \A k \in 1 .. Len(drawLog) : \A t \in TargetsRead(k) :
                \E j \in 1 .. k - 1 :
                    /\ t \in drawLog[j].writes
                    /\ \/ PassIndex(drawLog[j].pass) < PassIndex(drawLog[k].pass)
                       \/ drawLog[j].pass = "blur" /\ drawLog[k].pass = "blur" /\ j = k - 1
        /\ (amount >= 2 /\ FrameComplete) =>
             \A t \in OffScreenTargets : Writers(t) = {WriterPass(t)}

\* a complete second frame with the program's 100 blur iterations
C13_Witness ==
    /\ pc = "events" /\ frame = 2 /\ amount = gaussianBlurIntensity
    /\ Len(drawLog) = 105
    /\ drawLog[6].reads[0] = "pingpongColor1"

\* ------------------------------------------------------------------------
\* C14: a failed resource load (texture decode, cubemap face, shader read,
\* compile or link) never aborts: the constructor emits a diagnostic for
\* each failure, completes and leaves a handle; the cubemap constructor
\* tries every face whatever the earlier faces did; startup can always go
\* on and main() exits nowhere but at the test of Init().
\* ------------------------------------------------------------------------
C14_LoadFailuresContinue ==
    /\ [](/\ startup.pc = "exited" => (startup.step = 0 /\ startup.handles = {})
          /\ startup.pc = "resources" => ENABLED NextStartup
          /\ startup.pc \in {"resources", "loop"} =>
                /\ \A k \in 1 .. startup.step - 1 :
                      StartupSteps[k].name \in startup.handles
                /\ (\E k \in 1 .. startup.step - 1 : StartupSteps[k].kind = "cubemap") =>
                      /\ startup.facesTried = Faces
                      /\ startup.facesLoaded \subseteq Faces
          /\ startup.pc = "loop" =>
                startup.handles = {StartupSteps[k].name : k \in 1 .. Len(StartupSteps)})
    /\ [][/\ startup'.diagnostics = startup.diagnostics + Cardinality(startup'.last)
          /\ (startup.pc = "resources" /\ startup'.last # {}) =>
                /\ startup'.pc = "resources"
                /\ \/ startup'.step = startup.step + 1
                   \/ startup'.face = startup.face + 1]_vars

\* the loop is reached although the first cubemap face and other loads failed
C14_Witness ==
    /\ startup.pc = "loop"
    /\ startup.facesLoaded = Faces \ {0}
    /\ startup.diagnostics >= 6

\* ------------------------------------------------------------------------
\* C15 as stated: no failure surfaces as a returned status the caller
\* branches on, so after any failure the caller goes on as it would have
\* without it.
\* ------------------------------------------------------------------------
C15_NoReturnedStatus ==
    startup.last # {} => (startup.pc # "exited" /\ startup.initRet # -1)

\* ------------------------------------------------------------------------
\* C15 amended: a window-creation or GL-loader failure surfaces as one
\* diagnostic and as the value -1 returned by Init(), which main() tests and
\* answers by returning -1 before any resource exists; a resource-load or
\* framebuffer-completeness failure surfaces as diagnostics only and the
\* caller goes on; main() leaves startup only on a -1 from Init().
\* ------------------------------------------------------------------------
C15_OnlyInitReturnsStatus ==
    /\ startup.last \cap {"window", "glad"} # {} =>
          /\ startup.initRet = -1
          /\ startup.pc = "exited" /\ startup.exitCode = -1
          /\ startup.diagnostics = 1
          /\ startup.handles = {}
    /\ startup.last \cap {"decode", "face", "read", "vertex", "fragment", "link",
                          "incomplete"} # {} =>
          /\ startup.pc = "resources"
          /\ startup.diagnostics >= Cardinality(startup.last)
    /\ startup.pc = "exited" => (startup.initRet = -1 /\ startup.step = 0)
    /\ startup.pc \in {"resources", "loop"} => startup.initRet # -1

\* the GL loader failed: Init() returned -1 and main() returned -1
C15_Witness ==
    startup.pc = "exited" /\ startup.last = {"glad"} /\ startup.exitCode = -1

\* ------------------------------------------------------------------------
\* C16: whatever resize events arrive between frames, every render target
\* keeps its startup size (HDR channels and ping-pong targets 1920x1080, the
\* downsampled target 480x270) and the set of targets stays the same; only
\* the viewport follows the event.
\* ------------------------------------------------------------------------
C16_ResizeViewportOnly ==
    /\ DOMAIN targetDims = OffScreenTargets
    /\ \A t \in OffScreenTargets \ {"downSampledTex"} : targetDims[t] = <<1920, 1080>>
    /\ targetDims["downSampledTex"] = <<480, 270>>

\* the scene pass of a later frame has drawn with a resized viewport
C16_Witness ==
    /\ frame = 3 /\ pc = "animate" /\ viewport = <<1280, 720>>
    /\ targetDims["colorBuffer0"] = <<1920, 1080>>

\* ------------------------------------------------------------------------
\* C17: after every Moving update the light position is at distance
\* sunRadius from the origin (within 0.01 of 1.7).
\* ------------------------------------------------------------------------
C17_FixedRadius ==
    branch \in {"horizon", "zenith"} => Abs(Length(lightPos) - sunRadius) <= 100

\* ------------------------------------------------------------------------
\* C18: an update made while Waiting changes nothing but the idle timer and
\* the Waiting flag: light position, light colour, glow colour, exposure,
\* sunVel, the stored angle and the direction flag keep their values.
\* ------------------------------------------------------------------------
C18_WaitingFrame ==
    [][(IsUpdate /\ bWaiting) =>
          /\ UNCHANGED <<lightPos, lightDiffuse, glowColor, exposure, sunVel,
                         sunAngle, bReverseSun>>
          /\ branch' = "waiting"
          /\ timer' # timer \/ bWaiting' # bWaiting]_vars

\* a second Waiting update has run and the sun is where it stopped
C18_Witness ==
    /\ bWaiting /\ branch = "waiting" /\ timer = 5000
    /\ lightPos = OrbitPos(sunVel) /\ bReverseSun

\* ------------------------------------------------------------------------
\* C20: the idle timer is 0 whenever the controller is not Waiting, and 0
\* in the state that enters Waiting, so each wait counts idleTime from zero.
\* ------------------------------------------------------------------------
C20_TimerZeroWhenMoving ==
    /\ ~bWaiting => timer = 0
    /\ (bWaiting /\ branch # "waiting") => timer = 0
    /\ bWaiting => timer < idleTime

\* a wait has ended: Moving again, in reverse, with the timer back at 0
C20_Witness ==
    ~bWaiting /\ branch = "waiting" /\ timer = 0 /\ bReverseSun /\ updates >= 3

\* ------------------------------------------------------------------------
\* C19: at a constant frame time (1/60 s, and larger ones such as 1/15 s)
\* the controller alternates forever: a Moving sun eventually becomes
\* Waiting and a Waiting sun eventually becomes Moving again.
\* ------------------------------------------------------------------------
C19_AlternatesForever ==
    /\ ~bWaiting ~> bWaiting
    /\ bWaiting ~> ~bWaiting

\* ------------------------------------------------------------------------
\* C21: during the blur loop of every frame the active texture unit is
\* unit 0, the unit of the blur shader's sampler, although the composite
\* pass of the frame before left unit 5 active; so each blur draw samples
\* the texture the loop has just bound.
\* ------------------------------------------------------------------------
C21_BlurUnitZero ==
    /\ (pc \in {"events", "loop"} /\ frame >= 1) => activeTexture = 5
    /\ pc = "blurLoop" =>
          /\ activeTexture = 0
          /\ program = "blurShader"
          /\ SamplerUnits(program) = {activeTexture}
          /\ i >= 1 =>
                /\ DOMAIN drawLog[Len(drawLog)].reads = {0}
                /\ drawLog[Len(drawLog)].reads[0] = texUnit[activeTexture]
                /\ texUnit[activeTexture] \in
                      {"downSampledTex", "pingpongColor0", "pingpongColor1"}

\* the second blur iteration of the second frame has drawn
C21_Witness ==
    /\ pc = "blurLoop" /\ frame = 2 /\ i = 2 /\ activeTexture = 0
    /\ texUnit[5] = "starBurstTex"
    /\ drawLog[Len(drawLog)].reads[0] = "pingpongColor1"

\* ------------------------------------------------------------------------
\* C22: Init() returns -1 exactly when window creation or GL function
\* loading failed, so main() leaves before resource setup only after a
\* failed initialisation, and goes on after every successful one.
\* ------------------------------------------------------------------------
C22_InitStatusExact ==
    /\ startup.pc = "exited" => startup.last \cap {"window", "glad"} # {}
    /\ (startup.pc = "resources" /\ startup.step = 1) => startup.initRet # -1
    /\ startup.pc # "init" =>
          (startup.initRet = -1 <=> startup.pc = "exited")

\* ------------------------------------------------------------------------
\* C23: the aspectRatio uniform the composite pass has set is the ratio
\* 1920/1080 (1.7777, within 0.0001), not its integer part.
\* ------------------------------------------------------------------------
C23_AspectRatio ==
    (frame >= 1 /\ pc \in {"events", "loop", "terminated"}) =>
        Abs(uAspectRatio - Quot(1920 * FX, 1080)) <= 1

=============================================================================
